---------------------------- MODULE Spec2Model ----------------------------
(***************************************************************************)
(* The CHIP-8 interpreter core of chip/src/lib.rs as a state machine.      *)
(*                                                                         *)
(* The variables are the fields of `struct Chip`; one action per public    *)
(* method (load_rom, set_keypad, reset, tick).  Every method is a pure     *)
(* operator on a record of the fields, so that the private helpers         *)
(* (execute, call, ret, draw_sprite, ...) compose as they do in the code.  *)
(* A Rust panic (index out of bounds, slice out of range, remainder by     *)
(* zero, checked overflow) aborts the process: it is the outcome "Panic",  *)
(* after which no method is called any more.                               *)
(*                                                                         *)
(* The two large arrays are held by their support: mem maps the addresses  *)
(* whose byte is not 0 to that byte (every other address of 0..4095 holds  *)
(* 0), and fb is the set of the indices of the pixels that are on.         *)
(***************************************************************************)
EXTENDS Integers, Sequences, FiniteSets

\* ----------------------------------------------------------------- constants

ENTRY_ADDR == 512
DISP_WIDTH == 64
DISP_HEIGHT == 32
MEM_SIZE == 4096
STACK_SIZE == 16
REG_NUM == 16
CHARS_SIZE == 5 * 16

CHARS ==
    << 240, 144, 144, 144, 240,
        32,  96,  32,  32, 112,
       240,  16, 240, 128, 240,
       240,  16, 240,  16, 240,
       144, 144, 240,  16,  16,
       240, 128, 240,  16, 240,
       240, 128, 240, 144, 240,
       240,  16,  32,  64,  64,
       240, 144, 240, 144, 240,
       240, 144, 240,  16, 240,
       240, 144, 240, 144, 144,
       224, 144, 224, 144, 224,
       240, 128, 128, 128, 240,
       224, 144, 144, 144, 224,
       240, 128, 240, 128, 240,
       240, 128, 240, 128, 128 >>

\* u8 / u16 / usize value ranges
U8 == 256
U16 == 65536

\* ------------------------------------------------------------------- bounds

\* number of tick calls since new / reset
MaxTicks == 17
\* number of load_rom calls
MaxLoads == 1
\* number of reset calls
MaxResets == 1

\* ------------------------------------------------------------ bit operations

Bit(a, k) == (a \div (2 ^ k)) % 2

BitAnd(a, b) ==
    LET f[k \in 0..16] == IF k = 16 THEN 0 ELSE (2 ^ k) * (Bit(a, k) * Bit(b, k)) + f[k + 1]
    IN  f[0]

BitOr(a, b) ==
    LET f[k \in 0..16] ==
            IF k = 16 THEN 0
            ELSE (2 ^ k) * (IF Bit(a, k) + Bit(b, k) > 0 THEN 1 ELSE 0) + f[k + 1]
    IN  f[0]

BitXor(a, b) ==
    LET f[k \in 0..16] == IF k = 16 THEN 0 ELSE (2 ^ k) * ((Bit(a, k) + Bit(b, k)) % 2) + f[k + 1]
    IN  f[0]

\* ------------------------------------------------------------ random source

\* SmallRng is the rand crate's generator, not code of this repository.  The
\* machine only needs it to be a deterministic function of the seed: the
\* state is a 16-bit word, stepped by a linear congruence, and gen::<u8>()
\* returns the low byte of the stepped state.
seed_from_u64(seed) == (seed * 40503 + 1) % U16

rng_step(s) == (s * 75 + 74) % U16

rng_byte(s) == (rng_step(s) \div 7) % U8

\* ------------------------------------------------------------ the machine

\* the fields of `struct Chip`
VARIABLES mem, v, i, pc, stack, sp, dt, st, keypad, fb, rng
\* seed: the seed last handed to new or reset
\* last: the call of load_rom or tick made last since new / reset: op, its
\*       input (load_rom: addr = offset, arg = bin; tick: addr = pc at
\*       the call, arg = the word fetched), the Result returned (ret, and
\*       val, the number the Exception carries)
\* nticks: the tick calls since new / reset
\* nloads, nresets: the load_rom and reset calls since new
\* before: the framebuffer, the registers and I at the call of the last tick
\*         since new / reset (those of new / reset when there was none)
\* calls: the return addresses (the address of the 2NNN, plus 2) of the calls
\*        that succeeded since new / reset and that no return that succeeded
\*        has answered yet, the oldest first
VARIABLES seed, last, nticks, nloads, nresets, before, calls

chipvars == << mem, v, i, pc, stack, sp, dt, st, keypad, fb, rng >>
vars == << mem, v, i, pc, stack, sp, dt, st, keypad, fb, rng,
           seed, last, nticks, nloads, nresets, before, calls >>

\* mem[a]
at(m, a) == IF a \in DOMAIN m THEN m[a] ELSE 0

\* mem[a] = b
put(m, a, b) ==
    [ k \in (DOMAIN m \ {a}) \cup (IF b = 0 THEN {} ELSE {a}) |->
        IF k = a THEN b ELSE m[k] ]

\* fb[idx] |= true: the pixel is set, never cleared
toggle_set(f, idx) == f \cup {idx}

\* fb[idx] ^= true
toggle(f, idx) == IF idx \in f THEN f \ {idx} ELSE f \cup {idx}

\* the fields of `self`
Self ==
    [ mem |-> mem, v |-> v, i |-> i, pc |-> pc, stack |-> stack, sp |-> sp,
      dt |-> dt, st |-> st, keypad |-> keypad, fb |-> fb, rng |-> rng ]

\* self := c
Becomes(c) ==
    /\ mem' = c.mem
    /\ v' = c.v
    /\ i' = c.i
    /\ pc' = c.pc
    /\ stack' = c.stack
    /\ sp' = c.sp
    /\ dt' = c.dt
    /\ st' = c.st
    /\ keypad' = c.keypad
    /\ fb' = c.fb
    /\ rng' = c.rng

\* Result<(), Exception> of a method, with the machine it leaves behind
Ok(c) == [ chip |-> c, ret |-> "Ok", val |-> 0 ]
Err(c, e, val) == [ chip |-> c, ret |-> e, val |-> val ]
Panic(c) == [ chip |-> c, ret |-> "Panic", val |-> 0 ]

new(s) ==
    [ mem |-> [ a \in { k \in 0..(CHARS_SIZE - 1) : CHARS[k + 1] # 0 } |-> CHARS[a + 1] ],
      v |-> [ k \in 0..(REG_NUM - 1) |-> 0 ],
      i |-> 0,
      pc |-> ENTRY_ADDR,
      stack |-> [ k \in 0..(STACK_SIZE - 1) |-> 0 ],
      sp |-> 0,
      dt |-> 0,
      st |-> 0,
      keypad |-> [ k \in 0..15 |-> FALSE ],
      fb |-> {},
      rng |-> seed_from_u64(s) ]

set_keypad(c, key, pressed) ==
    IF key < 16 THEN [ c EXCEPT !.keypad[key] = pressed ] ELSE c

\* load_rom with the copy one byte short
load_rom_short(c, offset, bin) ==
    IF offset > MEM_SIZE THEN Panic(c)
    ELSE IF Len(bin) > MEM_SIZE - offset THEN Err(c, "OutOfMemory", Len(bin) % U16)
    ELSE Ok([ c EXCEPT !.mem =
                [ a \in { k \in DOMAIN c.mem : k < offset \/ k >= offset + Len(bin) - 1 }
                          \cup { offset + k - 1 : k \in { h \in 1..(Len(bin) - 1) : bin[h] # 0 } } |->
                    IF a >= offset /\ a < offset + Len(bin) - 1
                    THEN bin[a - offset + 1]
                    ELSE c.mem[a] ] ])

\* `MEM_SIZE - offset as usize` underflows when offset > MEM_SIZE: a panic with
\* overflow checks; without them the difference wraps to a huge usize, the
\* length test passes and the slice mem[offset..offset + len] panics, its
\* start being past the end.  Either way the call panics.
load_rom(c, offset, bin) ==
    IF offset > MEM_SIZE THEN Panic(c)
    ELSE IF Len(bin) > MEM_SIZE - offset THEN Err(c, "OutOfMemory", Len(bin) % U16)
    ELSE Ok([ c EXCEPT !.mem =
                [ a \in { k \in DOMAIN c.mem : k < offset \/ k >= offset + Len(bin) }
                          \cup { offset + k - 1 : k \in { h \in 1..Len(bin) : bin[h] # 0 } } |->
                    IF a >= offset /\ a < offset + Len(bin)
                    THEN bin[a - offset + 1]
                    ELSE c.mem[a] ] ])

framebuffer(c) == c.fb

tone(c) == c.st # 0

\* reset without `self.v.fill(0)`
reset_keeps_v(c, s) ==
    [ c EXCEPT !.pc = ENTRY_ADDR,
               !.sp = 0,
               !.i = 0,
               !.dt = 0,
               !.st = 0,
               !.keypad = [ k \in 0..15 |-> FALSE ],
               !.fb = {},
               !.mem = [ a \in {} |-> 0 ],
               !.stack = [ k \in 0..(STACK_SIZE - 1) |-> 0 ],
               !.rng = seed_from_u64(s) ]

reset(c, s) ==
    [ c EXCEPT !.pc = ENTRY_ADDR,
               !.sp = 0,
               !.i = 0,
               !.dt = 0,
               !.st = 0,
               !.keypad = [ k \in 0..15 |-> FALSE ],
               !.fb = {},
               !.v = [ k \in 0..(REG_NUM - 1) |-> 0 ],
               !.mem = [ a \in {} |-> 0 ],
               !.stack = [ k \in 0..(STACK_SIZE - 1) |-> 0 ],
               !.rng = seed_from_u64(s) ]


\* ------------------------------------------------------- instruction helpers

\* the two bytes at pc, big endian; tick calls it with pc + 1 < MEM_SIZE
fetch(c) == at(c.mem, c.pc) * 256 + at(c.mem, c.pc + 1)

disp_clr(c) == [ c EXCEPT !.fb = {} ]

\* ret reading the slot before it lowers sp: `pc = stack[sp]; sp -= 1`
ret_reads_above(c) ==
    IF c.sp = 0 THEN Err(c, "StackUnderflow", c.sp)
    ELSE IF c.sp >= STACK_SIZE THEN Panic(c)
    ELSE Ok([ c EXCEPT !.sp = c.sp - 1, !.pc = c.stack[c.sp] ])

ret(c) ==
    IF c.sp = 0 THEN Err(c, "StackUnderflow", c.sp)
    ELSE Ok([ c EXCEPT !.sp = c.sp - 1, !.pc = c.stack[c.sp - 1] ])

jump(c, addr) ==
    IF addr > 4095 THEN Err(c, "IllegalAddress", addr)
    ELSE Ok([ c EXCEPT !.pc = addr ])

\* call with the overflow test `self.sp > STACK_SIZE`
call_off_by_one(c, addr) ==
    IF c.sp > STACK_SIZE THEN Err(c, "StackOverflow", c.sp)
    ELSE LET pushed == [ c EXCEPT !.sp = c.sp + 1 ]
         IN  Ok([ pushed EXCEPT !.pc = addr ])

call(c, addr) ==
    IF c.sp >= STACK_SIZE THEN Err(c, "StackOverflow", c.sp)
    ELSE LET pushed == [ c EXCEPT !.stack[c.sp] = c.pc, !.sp = c.sp + 1 ]
         IN  IF addr > 4095 THEN Err(pushed, "IllegalAddress", addr)
             ELSE Ok([ pushed EXCEPT !.pc = addr ])

skip_if_eq(c, a, b) == IF a = b THEN [ c EXCEPT !.pc = c.pc + 2 ] ELSE c

skip_if_ne(c, a, b) == IF a # b THEN [ c EXCEPT !.pc = c.pc + 2 ] ELSE c

load_reg(c, x, val) == [ c EXCEPT !.v[x] = val ]

load_i(c, val) == [ c EXCEPT !.i = val ]

\* the inner loop without `% DISP_WIDTH`: columns past 63 run into the next row
RECURSIVE draw_row_no_wrap(_, _, _, _, _)
draw_row_no_wrap(acc, sprite, x, yi, j) ==
    IF j = 8 THEN acc
    ELSE IF BitAnd(sprite, 128 \div (2 ^ j)) # 0
         THEN LET idx == ((x + j) + ((yi % DISP_HEIGHT) * DISP_WIDTH))
                            % (DISP_WIDTH * DISP_HEIGHT)
              IN  IF idx \in acc.fb
                  THEN draw_row_no_wrap([ fb |-> toggle(acc.fb, idx), flipped |-> TRUE ],
                                        sprite, x, yi, j + 1)
                  ELSE draw_row_no_wrap([ fb |-> toggle(acc.fb, idx),
                                          flipped |-> acc.flipped ],
                                        sprite, x, yi, j + 1)
         ELSE draw_row_no_wrap(acc, sprite, x, yi, j + 1)

\* the inner loop `for j in 0..8` of draw_sprite from bit j on, for the sprite
\* byte of screen row yi; acc is [fb, flipped]
RECURSIVE draw_row(_, _, _, _, _)
draw_row(acc, sprite, x, yi, j) ==
    IF j = 8 THEN acc
    ELSE IF BitAnd(sprite, 128 \div (2 ^ j)) # 0
         THEN LET idx == ((x + j) % DISP_WIDTH) + ((yi % DISP_HEIGHT) * DISP_WIDTH)
              IN  \* flipped |= fb[idx]; fb[idx] ^= true
                  IF idx \in acc.fb
                  THEN draw_row([ fb |-> toggle(acc.fb, idx), flipped |-> TRUE ],
                                sprite, x, yi, j + 1)
                  ELSE draw_row([ fb |-> toggle(acc.fb, idx), flipped |-> acc.flipped ],
                                sprite, x, yi, j + 1)
         ELSE draw_row(acc, sprite, x, yi, j + 1)

\* the outer loop `for i in 0..n` of draw_sprite from row r on; the read of
\* mem[I + r] panics when I + r is past the end of memory, the rows before it
\* already drawn
RECURSIVE draw_rows(_, _, _, _, _, _)
draw_rows(c, acc, x, y, n, r) ==
    IF r = n
    THEN Ok([ c EXCEPT !.fb = acc.fb, !.v[15] = IF acc.flipped THEN 1 ELSE 0 ])
    ELSE IF c.i + r >= MEM_SIZE
         THEN Panic([ c EXCEPT !.fb = acc.fb ])
         ELSE draw_rows(c, draw_row(acc, at(c.mem, c.i + r), x, y + r, 0), x, y, n, r + 1)

draw_sprite(c, x, y, n) ==
    draw_rows(c, [ fb |-> c.fb, flipped |-> FALSE ], c.v[x], c.v[y], n, 0)

wait_for_key(c, x) ==
    IF \E k \in 0..15 : c.v[x] = k /\ c.keypad[k]
    THEN [ c EXCEPT !.pc = c.pc + 2 ]
    ELSE c

\* the slice mem[I..I + 3] panics when I + 3 is past the end of memory
store_reg_bcd(c, x) ==
    LET num == c.v[x]
    IN  IF c.i + 3 > MEM_SIZE THEN Panic(c)
        ELSE Ok([ c EXCEPT !.mem = put(put(put(c.mem, c.i, num \div 100),
                                               c.i + 1, (num % 100) \div 10),
                                           c.i + 2, (num % 100) % 10) ])

\* the loop `for i in 0..x` of store_regs from register k on
RECURSIVE store_regs_from(_, _, _, _)
store_regs_from(c, x, k, offset) ==
    IF k >= x THEN Ok(c)
    ELSE IF offset < MEM_SIZE
         THEN store_regs_from([ c EXCEPT !.mem = put(c.mem, offset, c.v[k]) ],
                              x, k + 1, offset + 1)
         ELSE Err(c, "IllegalAddress", offset % U16)

store_regs(c, x) == store_regs_from(c, x, 0, c.i)

\* the loop `for i in 0..x` of load_regs from register k on
RECURSIVE load_regs_from(_, _, _, _)
load_regs_from(c, x, k, offset) ==
    IF k >= x THEN Ok(c)
    ELSE IF offset < MEM_SIZE
         THEN load_regs_from([ c EXCEPT !.v[k] = at(c.mem, offset) ], x, k + 1, offset + 1)
         ELSE Err(c, "IllegalAddress", offset % U16)

load_regs(c, x) == load_regs_from(c, x, 0, c.i)

\* keypad.iter().enumerate().rfind(|(_, &k)| k): the highest pressed key, or 16
first_pressed_highest(c) ==
    IF \E k \in 0..15 : c.keypad[k]
    THEN CHOOSE k \in 0..15 : c.keypad[k] /\ \A h \in (k + 1)..15 : ~ c.keypad[h]
    ELSE 16

\* keypad.iter().enumerate().find(|(_, &k)| k): the lowest pressed key, or 16
first_pressed(c) ==
    IF \E k \in 0..15 : c.keypad[k]
    THEN CHOOSE k \in 0..15 : c.keypad[k] /\ \A h \in 0..(k - 1) : ~ c.keypad[h]
    ELSE 16

\* ------------------------------------------------------------------ execute

\* the decoding and the `match d` of execute
\* oc: the build has overflow checks (u16 `+` panics instead of wrapping)
execute_match(c, opcode, oc) ==
    LET d == opcode \div 4096
        x == (opcode \div 256) % 16
        y == (opcode \div 16) % 16
        n == opcode % 16
        nn == opcode % 256
        nnn == opcode % 4096
        vx == c.v[x]
        vy == c.v[y]
    IN  CASE d = 0 ->
               (CASE nn = 0 -> Ok(c)
                  [] nn = 224 -> Ok(disp_clr(c))
                  [] nn = 238 -> ret(c)
                  [] OTHER -> Err(c, "IllegalOpcode", opcode))
          [] d = 1 -> jump(c, nnn)
          [] d = 2 -> call(c, nnn)
          [] d = 3 -> Ok(skip_if_eq(c, vx, nn))
          [] d = 4 -> Ok(skip_if_ne(c, vx, nn))
          [] d = 5 -> Ok(skip_if_eq(c, vx, vy))
          [] d = 6 -> Ok(load_reg(c, x, nn))
          [] d = 7 -> Ok(load_reg(c, x, (vx + nn) % U8))
          [] d = 8 ->
               (CASE n = 0 -> Ok(load_reg(c, x, vy))
                  [] n = 1 -> Ok(load_reg(c, x, BitOr(vx, vy)))
                  [] n = 2 -> Ok(load_reg(c, x, BitAnd(vx, vy)))
                  [] n = 3 -> Ok(load_reg(c, x, BitXor(vx, vy)))
                  [] n = 4 ->
                       Ok(load_reg(load_reg(c, x, (vx + vy) % U8),
                                   15, IF vx + vy >= U8 THEN 1 ELSE 0))
                  [] n = 5 ->
                       Ok(load_reg(load_reg(c, x, (vx + U8 - vy) % U8),
                                   15, IF vx < vy THEN 0 ELSE 1))
                  [] n = 6 ->
                       Ok(load_reg(load_reg(c, 15, BitAnd(vx, 1)), x, vx \div 2))
                  [] n = 7 ->
                       Ok(load_reg(load_reg(c, x, (vy + U8 - vx) % U8),
                                   15, IF vy < vx THEN 0 ELSE 1))
                  [] n = 14 ->
                       Ok(load_reg(load_reg(c, 15, IF BitAnd(vx, 128) = 0 THEN 0 ELSE 1),
                                   x, (vx * 2) % U8))
                  [] OTHER -> Err(c, "IllegalOpcode", opcode))
          [] d = 9 -> Ok(skip_if_ne(c, vx, vy))
          [] d = 10 -> Ok(load_i(c, nnn))
          [] d = 11 -> jump(c, c.v[0] + nnn)
          [] d = 12 ->
               \* gen::<u8>() advances the generator, then `% nn` panics on nn = 0
               LET drawn == [ c EXCEPT !.rng = rng_step(c.rng) ]
               IN  IF nn = 0 THEN Panic(drawn)
                   ELSE Ok(load_reg(drawn, x, rng_byte(c.rng) % nn))
          [] d = 13 -> draw_sprite(c, x, y, n)
          [] d = 14 ->
               (CASE nn = 158 ->
                       Ok(IF first_pressed(c) < 16 /\ vx = first_pressed(c)
                          THEN [ c EXCEPT !.pc = c.pc + 2 ] ELSE c)
                  [] nn = 161 ->
                       Ok(IF first_pressed(c) < 16 /\ vx # first_pressed(c)
                          THEN [ c EXCEPT !.pc = c.pc + 2 ] ELSE c)
                  [] OTHER -> Err(c, "IllegalOpcode", opcode))
          [] d = 15 ->
               (CASE nn = 7 -> Ok(load_reg(c, x, c.dt))
                  [] nn = 10 -> Ok(wait_for_key(c, x))
                  [] nn = 21 -> Ok([ c EXCEPT !.dt = vx ])
                  [] nn = 24 -> Ok([ c EXCEPT !.st = vx ])
                  [] nn = 30 ->
                       IF c.i + vx >= U16
                       THEN (IF oc THEN Panic(c) ELSE Ok(load_i(c, (c.i + vx) % U16)))
                       ELSE Ok(load_i(c, c.i + vx))
                  [] nn = 41 -> Ok(load_i(c, 5 * vx))
                  [] nn = 51 -> store_reg_bcd(c, x)
                  [] nn = 85 -> store_regs(c, x)
                  [] nn = 101 -> load_regs(c, x)
                  [] OTHER -> Err(c, "IllegalOpcode", opcode))
          [] OTHER -> Err(c, "IllegalOpcode", opcode)

\* execute with 8XY4 forgetting the flag: Vx = Vx + Vy only
execute_add_no_carry(c, opcode, oc) ==
    IF opcode \div 4096 = 8 /\ opcode % 16 = 4
    THEN Ok(load_reg(c, (opcode \div 256) % 16,
                     (c.v[(opcode \div 256) % 16] + c.v[(opcode \div 16) % 16]) % U8))
    ELSE execute_match(c, opcode, oc)

\* execute with 8XY5 writing the borrow itself: VF = 1 when Vx < Vy
execute_sub_borrow_flag(c, opcode, oc) ==
    LET vx == c.v[(opcode \div 256) % 16]
        vy == c.v[(opcode \div 16) % 16]
    IN  IF opcode \div 4096 = 8 /\ opcode % 16 = 5
        THEN Ok(load_reg(load_reg(c, (opcode \div 256) % 16, (vx + U8 - vy) % U8),
                         15, IF vx < vy THEN 1 ELSE 0))
        ELSE execute_match(c, opcode, oc)

\* execute with 7XNN writing a carry to VF as 8XY4 does
execute_add_imm_carry(c, opcode, oc) ==
    LET x == (opcode \div 256) % 16
        nn == opcode % 256
    IN  IF opcode \div 4096 = 7
        THEN Ok(load_reg(load_reg(c, x, (c.v[x] + nn) % U8),
                         15, IF c.v[x] + nn >= U8 THEN 1 ELSE 0))
        ELSE execute_match(c, opcode, oc)

\* execute with 5XYN rejected unless n = 0
execute_strict_5xy0(c, opcode, oc) ==
    IF opcode \div 4096 = 5 /\ opcode % 16 # 0
    THEN Err(c, "IllegalOpcode", opcode)
    ELSE execute_match(c, opcode, oc)

execute(c, opcode, oc) == execute_match(c, opcode, oc)

\* tick with `self.dt -= 1` and `self.st -= 1` not guarded: 0 wraps to 255
tick_timers_wrap(c, oc) ==
    LET timed == [ c EXCEPT !.dt = (c.dt + U8 - 1) % U8,
                            !.st = (c.st + U8 - 1) % U8 ]
    IN  IF timed.pc >= MEM_SIZE THEN Err(timed, "OutOfMemory", timed.pc)
        ELSE IF timed.pc + 1 >= MEM_SIZE THEN Panic(timed)
        ELSE execute([ timed EXCEPT !.pc = timed.pc + 2 ], fetch(timed), oc)

\* the timers, the bound test on pc, fetch, pc += 2, execute.  pc = 0xFFF
\* passes the bound test and fetch reads mem[0x1000]: index out of bounds.
tick(c, oc) ==
    LET timed == [ c EXCEPT !.dt = IF c.dt > 0 THEN c.dt - 1 ELSE c.dt,
                            !.st = IF c.st > 0 THEN c.st - 1 ELSE c.st ]
    IN  IF timed.pc >= MEM_SIZE THEN Err(timed, "OutOfMemory", timed.pc)
        ELSE IF timed.pc + 1 >= MEM_SIZE THEN Panic(timed)
        ELSE execute([ timed EXCEPT !.pc = timed.pc + 2 ], fetch(timed), oc)

\* the word tick fetches from c, or -1 when it returns or panics before
fetched(c) == IF c.pc + 1 < MEM_SIZE THEN fetch(c) ELSE -1

\* ------------------------------------------------------------------- inputs

\* a program given as 16-bit words, as the bytes load_rom takes
Bytes(words) ==
    [ k \in 1..(2 * Len(words)) |->
        IF k % 2 = 1 THEN words[(k + 1) \div 2] \div 256 ELSE words[k \div 2] % 256 ]

\* 2200: call 0x200, for ever deeper
RomCalls == Bytes(<< \h2200 >>)
\* call 0x204; there return to 0x202; there return on an empty stack
RomCallRet == Bytes(<< \h2204, \h00EE, \h00EE >>)
\* an undefined word; a BNNN jump past 0xFFF; FX55 and FX65 running off the
\* end of memory
RomErrors ==
    Bytes(<< \h0123, \h60FF, \hBFFF, \h6007, \h6109, \hAFFE, \hF355,
             \h6000, \h6100, \hF365 >>)
\* FX55 then FX65 with x = 1 at I = 0x300
RomBlock == Bytes(<< \h6007, \h6109, \hA300, \hF155, \h6000, \h6100, \hF165 >>)
\* V0 = 1; wait for key V0; skip if key V0 pressed / not pressed; again
RomKeys == Bytes(<< \h6001, \hF00A, \hE09E, \hE0A1, \h1202 >>)
\* jump to 0xFFF
RomFetchEnd == Bytes(<< \h1FFF >>)
\* random bytes modulo 7, 255 and 0
RomRand == Bytes(<< \hC107, \hC2FF, \hC000 >>)
\* a two-row sprite at I = 0xFFF
RomSprite == Bytes(<< \hAFFF, \hD002 >>)
\* BCD of 234 at 0x300, then at 0xFFE
RomBcd == Bytes(<< \h60EA, \hA300, \hF033, \hAFFE, \hF033 >>)

Roms ==
    { << >>, RomCalls, RomCallRet, RomErrors, RomBlock, RomKeys, RomFetchEnd,
      RomRand, RomSprite, RomBcd }

\* the (offset, bin) handed to load_rom: every program at the entry point; at
\* the last two bytes of memory a program that fits and one that does not;
\* at the end of memory nothing and a program; past the end of memory nothing
Loads ==
    ({ ENTRY_ADDR } \X Roms)
        \cup { << MEM_SIZE - 2, RomCalls >>, << MEM_SIZE - 2, RomCallRet >>,
               << MEM_SIZE, << >> >>, << MEM_SIZE, RomCalls >>,
               << MEM_SIZE + 1, << >> >> }

\* keys handed to set_keypad; 16 is not a key
Keys == { 1, 16 }

\* seeds handed to new and reset
Seeds == { 0, 1 }

\* ------------------------------------------------------------------ actions

Alive == last.ret # "Panic"

NoResult == [ op |-> "none", addr |-> 0, arg |-> 0, ret |-> "Ok", val |-> 0 ]

\* `calls` after a tick at address a that fetched the word w and returned res
Answered(cs, a, w, res) ==
    IF res = "Ok" /\ w \div 4096 = 2 THEN Append(cs, a + 2)
    ELSE IF res = "Ok" /\ w \div 4096 = 0 /\ w % 256 = 238 /\ Len(cs) > 0
         THEN SubSeq(cs, 1, Len(cs) - 1)
         ELSE cs

\* what `before` keeps of the machine c
Before(c) == [ fb |-> c.fb, v |-> c.v, i |-> c.i ]

Init ==
    /\ seed \in Seeds
    /\ mem = new(seed).mem
    /\ v = new(seed).v
    /\ i = new(seed).i
    /\ pc = new(seed).pc
    /\ stack = new(seed).stack
    /\ sp = new(seed).sp
    /\ dt = new(seed).dt
    /\ st = new(seed).st
    /\ keypad = new(seed).keypad
    /\ fb = new(seed).fb
    /\ rng = new(seed).rng
    /\ last = NoResult
    /\ before = Before(new(seed))
    /\ calls = << >>
    /\ nticks = 0
    /\ nloads = 0
    /\ nresets = 0

\* load_rom(offset, bin) for an << offset, bin >> of loads
LoadRomFrom(loads) ==
    /\ Alive
    /\ nloads < MaxLoads
    /\ \E ld \in loads :
          LET r == load_rom(Self, ld[1], ld[2])
          IN  /\ Becomes(r.chip)
              /\ last' = [ op |-> "load_rom", addr |-> ld[1], arg |-> ld[2],
                           ret |-> r.ret, val |-> r.val ]
    /\ nloads' = nloads + 1
    /\ UNCHANGED << seed, nticks, nresets, before, calls >>

LoadRom == LoadRomFrom(Loads)

\* set_keypad(key, pressed) for a key of keys
SetKeypadFrom(keys) ==
    /\ Alive
    /\ \E key \in keys, pressed \in BOOLEAN :
          Becomes(set_keypad(Self, key, pressed))
    /\ UNCHANGED << seed, last, nticks, nloads, nresets, before, calls >>

SetKeypad == SetKeypadFrom(Keys)

Reset ==
    /\ Alive
    /\ nresets < MaxResets
    /\ \E s \in Seeds :
          /\ Becomes(reset(Self, s))
          /\ seed' = s
          /\ before' = Before(reset(Self, s))
    /\ calls' = << >>
    /\ last' = NoResult
    /\ nticks' = 0
    /\ nresets' = nresets + 1
    /\ UNCHANGED nloads

\* tick, at most n calls of it since new / reset
TickUpTo(n) ==
    /\ Alive
    /\ nticks < n
    /\ \E oc \in BOOLEAN :
          LET r == tick(Self, oc)
          IN  /\ Becomes(r.chip)
              /\ last' = [ op |-> "tick", addr |-> pc, arg |-> fetched(Self),
                           ret |-> r.ret, val |-> r.val ]
              /\ calls' = Answered(calls, pc, fetched(Self), r.ret)
    /\ before' = Before(Self)
    /\ nticks' = nticks + 1
    /\ UNCHANGED << seed, nloads, nresets >>

Tick == TickUpTo(MaxTicks)

Next == LoadRom \/ SetKeypad \/ Reset \/ Tick

Spec == Init /\ [][Next]_vars

\* ------------------------------------------------------------ steps, words

\* the step is a call of tick / load_rom / reset
TickStep == nticks' = nticks + 1
LoadStep == nloads' = nloads + 1
ResetStep == nresets' = nresets + 1

\* the word a tick called now executes, -1 when it executes none, and its fields
Op == IF pc + 1 < MEM_SIZE THEN fetched(Self) ELSE -1
OpD == Op \div 4096
OpX == (Op \div 256) % 16
OpNN == Op % 256
OpY == (Op \div 16) % 16
OpN == Op % 16

\* the addresses either of two memories holds a non-zero byte at: two
\* memories that agree on them agree on all of 0..MEM_SIZE - 1
Held(m1, m2) == DOMAIN m1 \cup DOMAIN m2

\* ---------------------------------------------------------------------- C1

\* C1: tick never aborts the process: from every state reached by load_rom,
\* set_keypad, reset and tick calls that returned, tick returns Ok or an
\* Exception; it does not panic.
C1_TickNeverAborts == ~ (last.op = "tick" /\ last.ret = "Panic")

\* ---------------------------------------------------------------------- C2

\* C2: load_rom(O, bytes) returns Ok iff O + len(bytes) <= 4096, and
\* otherwise returns OutOfMemory and leaves the memory as it was.
C2_LoadOkIffFits ==
    [][ LoadStep =>
          IF last'.addr + Len(last'.arg) <= MEM_SIZE
          THEN last'.ret = "Ok"
          ELSE last'.ret = "OutOfMemory" /\ mem' = mem ]_vars

\* ---------------------------------------------------------------------- C3

\* C3: a load_rom(O, bytes) that returns Ok leaves memory[O + k] = bytes[k]
\* for every k < len(bytes), every other byte of memory as it was, and every
\* other field of the machine as it was.
C3_LoadRomFrame ==
    [][ (LoadStep /\ last'.ret = "Ok") =>
          LET O == last'.addr
              bytes == last'.arg
          IN  /\ \A k \in 1..Len(bytes) : at(mem', O + k - 1) = bytes[k]
              /\ \A a \in Held(mem, mem') :
                    (a < O \/ a >= O + Len(bytes)) => at(mem', a) = at(mem, a)
              /\ DOMAIN mem' \subseteq 0..(MEM_SIZE - 1)
              /\ UNCHANGED << v, i, pc, stack, sp, dt, st, keypad, fb, rng >> ]_vars

\* a program was loaded into a machine that had run: its bytes are in memory
\* and the program counter has moved on
C3_Witness ==
    /\ last.op = "load_rom"
    /\ last.ret = "Ok"
    /\ Len(last.arg) > 0
    /\ nticks > 0
    /\ pc # ENTRY_ADDR
    /\ \A k \in 1..Len(last.arg) : at(mem, last.addr + k - 1) = last.arg[k]

\* ---------------------------------------------------------------------- C4

\* C4: the stack pointer is always within 0..16; a call (2nnn) with fewer
\* than 16 return addresses on the stack succeeds and pushes one, a call with
\* 16 on it fails with StackOverflow, and a return (00EE) on an empty stack
\* fails with StackUnderflow: from an empty stack 16 calls in a row succeed
\* and the 17th fails.
C4_StackDiscipline ==
    /\ [](sp \in 0..STACK_SIZE)
    /\ [][ (TickStep /\ OpD = 2) =>
             IF sp < STACK_SIZE
             THEN last'.ret = "Ok" /\ sp' = sp + 1
             ELSE last'.ret = "StackOverflow" /\ sp' = sp ]_vars
    /\ [][ (TickStep /\ Op = 238 /\ sp = 0) =>
             last'.ret = "StackUnderflow" /\ sp' = 0 ]_vars

\* the 17th tick of a run of calls fails with StackOverflow, 16 return
\* addresses being on the stack
C4_Witness ==
    /\ last.op = "tick"
    /\ last.arg \div 4096 = 2
    /\ last.ret = "StackOverflow"
    /\ nticks = STACK_SIZE + 1
    /\ sp = STACK_SIZE

\* ---------------------------------------------------------------------- C5

\* the first n bytes the random source yields from state s
RECURSIVE rng_seq(_, _)
rng_seq(s, n) == IF n = 0 THEN << >> ELSE << rng_byte(s) >> \o rng_seq(rng_step(s), n - 1)

\* how many random bytes of the two machines are compared
MaxRand == 4

\* C5: after reset(seed) the registers, I, the stack and its pointer, both
\* timers, the keypad, the framebuffer, the program counter (0x200) and every
\* byte of memory outside the font region 0x000..0x04F are those of
\* new(seed), and the random bytes that follow are those of new(seed).
C5_ResetIsNew ==
    [][ ResetStep =>
          LET fresh == new(seed')
          IN  /\ v' = fresh.v
              /\ i' = fresh.i
              /\ stack' = fresh.stack
              /\ sp' = fresh.sp
              /\ dt' = fresh.dt
              /\ st' = fresh.st
              /\ keypad' = fresh.keypad
              /\ fb' = fresh.fb
              /\ pc' = fresh.pc
              /\ pc' = 512
              /\ \A a \in Held(mem', fresh.mem) :
                    a >= CHARS_SIZE => at(mem', a) = at(fresh.mem, a)
              /\ rng_seq(rng', MaxRand) = rng_seq(fresh.rng, MaxRand) ]_vars

\* a reset has happened: the machine is at the entry point with the memory,
\* the font included, cleared
C5_Witness ==
    /\ nresets = 1
    /\ nticks = 0
    /\ nloads = 1
    /\ pc = ENTRY_ADDR
    /\ at(mem, 0) = 0

\* ---------------------------------------------------------------------- C6

\* C6: the font table is always in memory: bytes 0x000..0x04F are the 80
\* bytes of CHARS in every state reached by reset, set_keypad, tick and
\* load_rom at offsets >= 0x200 (Loads holds no other).
C6_FontPresent == \A k \in 0..(CHARS_SIZE - 1) : at(mem, k) = CHARS[k + 1]

\* ---------------------------------------------------------------------- C7

\* C7: with I + x <= 4095, FX55 leaves memory[I + k] = Vk for every k in 0..x
\* and FX65 leaves Vk = memory[I + k] for every k in 0..x, x included.
C7_BlockTransferInclusive ==
    /\ [][ (TickStep /\ OpD = 15 /\ OpNN = 85 /\ i + OpX <= 4095) =>
             \A k \in 0..OpX : at(mem', i + k) = v[k] ]_vars
    /\ [][ (TickStep /\ OpD = 15 /\ OpNN = 101 /\ i + OpX <= 4095) =>
             \A k \in 0..OpX : v'[k] = at(mem, i + k) ]_vars

\* ---------------------------------------------------------------------- C8

\* C8: a tick that executes FX0A at address A succeeds; it leaves pc = A when
\* key Vx is not pressed and pc = A + 2 when it is, and changes nothing else
\* but the timers.
C8_WaitForKeyBusyWait ==
    [][ (TickStep /\ OpD = 15 /\ OpNN = 10) =>
          /\ last'.ret = "Ok"
          /\ pc' = IF v[OpX] < 16 /\ keypad[v[OpX]] THEN pc + 2 ELSE pc
          /\ UNCHANGED << mem, v, i, stack, sp, keypad, fb, rng >> ]_vars

\* ---------------------------------------------------------------------- C9

\* C9: a tick that executes CXNN succeeds and leaves Vx = (random byte mod nn),
\* a value of 0..nn-1, when nn is in 1..255, and Vx = 0 when nn = 0.
C9_RandomModulo ==
    [][ (TickStep /\ OpD = 12) =>
          /\ last'.ret = "Ok"
          /\ IF OpNN = 0
             THEN v'[OpX] = 0
             ELSE v'[OpX] = rng_byte(rng) % OpNN /\ v'[OpX] \in 0..(OpNN - 1) ]_vars

\* --------------------------------------------------------------------- C10

\* C10: a tick that returns an Exception leaves the registers, I, the memory,
\* the stack and its pointer, the keypad and the framebuffer as they were;
\* only the timers have been decremented and, unless the failure is the
\* OutOfMemory of the fetch, pc advanced by 2.
C10_FailuresAtomic ==
    [][ (TickStep /\ last'.ret \notin { "Ok", "Panic" }) =>
          /\ UNCHANGED << v, i, mem, stack, sp, keypad, fb >>
          /\ pc' = IF last'.ret = "OutOfMemory" THEN pc ELSE pc + 2
          /\ dt' = IF dt > 0 THEN dt - 1 ELSE 0
          /\ st' = IF st > 0 THEN st - 1 ELSE 0 ]_vars

\* ------------------------------------------------------- the driver, a program

\* examples/emu.rs: one program is loaded at the entry point into the machine
\* new has built, before the first tick
LoadOnce(roms) ==
    /\ nloads = 0
    /\ nticks = 0
    /\ LoadRomFrom({ ENTRY_ADDR } \X roms)

\* the words 6XNN, 7XNN, 8XYN
Op6(x, nn) == (6 * 4096) + (x * 256) + nn
Op7(x, nn) == (7 * 4096) + (x * 256) + nn
Op8(x, y, n) == (8 * 4096) + (x * 256) + (y * 16) + n

\* ------------------------------------------------------ arithmetic programs

\* the registers and the values the arithmetic programs use
AluRegs == { 0, 1, 15 }
AluVals == { 0, 1, 128, 255 }

\* the word of kind k on Vx and Vy: 8XYk, or 7XNN with nn = b for k = 16
AluWord(x, y, b, k) == IF k = 16 THEN Op7(x, b) ELSE Op8(x, y, k)

\* VF = 5; Vx = a; Vy = b; then the word of kind k
AluRoms ==
    { Bytes(<< Op6(15, 5), Op6(x, a), Op6(y, b), AluWord(x, y, b, k) >>) :
        x \in AluRegs, y \in AluRegs, a \in AluVals, b \in AluVals,
        k \in (0..7) \cup { 14, 16 } }

\* the ticks of an arithmetic program
MaxAluTicks == 4

LoadAlu == LoadOnce(AluRoms)

TickAlu == TickUpTo(MaxAluTicks)

NextAlu == LoadAlu \/ TickAlu

SpecAlu == Init /\ [][NextAlu]_vars

\* the fields of the word the last tick executed
LastD == last.arg \div 4096
LastX == (last.arg \div 256) % 16
LastY == (last.arg \div 16) % 16
LastN == last.arg % 16
LastNN == last.arg % 256

\* --------------------------------------------------------------------- C11

\* C11 as claimed: for all x and y, 8XY4 leaves Vx = (Vx + Vy) mod 256 and
\* VF = 1 iff Vx + Vy >= 256, else 0.
C11_AddCarryAllX ==
    [][ (TickStep /\ OpD = 8 /\ OpN = 4) =>
          /\ v'[OpX] = (v[OpX] + v[OpY]) % 256
          /\ v'[15] = IF v[OpX] + v[OpY] >= 256 THEN 1 ELSE 0 ]_vars

\* C11 amended: the tick of 8XY4 succeeds and leaves VF = 1 iff
\* Vx + Vy >= 256, else 0, and, when x is not 0xF, Vx = (Vx + Vy) mod 256.
C11_AddCarry ==
    [][ (TickStep /\ OpD = 8 /\ OpN = 4) =>
          /\ last'.ret = "Ok"
          /\ v'[15] = IF v[OpX] + v[OpY] >= 256 THEN 1 ELSE 0
          /\ OpX # 15 => v'[OpX] = (v[OpX] + v[OpY]) % 256 ]_vars

\* an 8XY4 with x not 0xF has carried: VF = 1 and Vx is the sum less 256
C11_Witness ==
    /\ last.op = "tick"
    /\ LastD = 8
    /\ LastN = 4
    /\ LastX # 15
    /\ before.v[LastX] + before.v[LastY] >= 256
    /\ v[LastX] = before.v[LastX] + before.v[LastY] - 256
    /\ v[15] = 1

\* --------------------------------------------------------------------- C12

\* C12 as claimed: 8XY5 leaves Vx = (Vx - Vy) mod 256 and VF = 1 iff
\* Vx >= Vy, else 0.
C12_SubAllX ==
    [][ (TickStep /\ OpD = 8 /\ OpN = 5) =>
          /\ v'[OpX] = (v[OpX] - v[OpY]) % 256
          /\ v'[15] = IF v[OpX] >= v[OpY] THEN 1 ELSE 0 ]_vars

\* C12 amended: the tick of 8XY5 succeeds and leaves VF = 1 iff Vx >= Vy,
\* else 0, and, when x is not 0xF, Vx = (Vx - Vy) mod 256.
C12_Sub ==
    [][ (TickStep /\ OpD = 8 /\ OpN = 5) =>
          /\ last'.ret = "Ok"
          /\ v'[15] = IF v[OpX] >= v[OpY] THEN 1 ELSE 0
          /\ OpX # 15 => v'[OpX] = (v[OpX] - v[OpY]) % 256 ]_vars

\* an 8XY5 with x not 0xF has borrowed: VF = 0 and Vx is the difference
\* plus 256
C12_Witness ==
    /\ last.op = "tick"
    /\ LastD = 8
    /\ LastN = 5
    /\ LastX # 15
    /\ before.v[LastX] < before.v[LastY]
    /\ v[LastX] = before.v[LastX] - before.v[LastY] + 256
    /\ v[15] = 0

\* --------------------------------------------------------------------- C13

\* the flag of 8XYn on Vx = a and Vy = b: carry, no borrow, low bit of Vx,
\* no borrow, high bit of Vx
Flag(n, a, b) ==
    CASE n = 4 -> IF a + b >= 256 THEN 1 ELSE 0
      [] n = 5 -> IF a >= b THEN 1 ELSE 0
      [] n = 6 -> a % 2
      [] n = 7 -> IF b >= a THEN 1 ELSE 0
      [] n = 14 -> a \div 128

\* C13: after 8XY4, 8XY5, 8XY6, 8XY7 and 8XYE, for every x and y, x = 0xF
\* included, VF is the flag of the operands before the instruction, 0 or 1.
C13_FlagInVF ==
    [][ (TickStep /\ OpD = 8 /\ OpN \in { 4, 5, 6, 7, 14 }) =>
          /\ v'[15] = Flag(OpN, v[OpX], v[OpY])
          /\ v'[15] \in { 0, 1 } ]_vars

\* --------------------------------------------------------------------- C20

\* what 6XNN, 7XNN, 8XY0..8XY3 leave in Vx
Loaded(d, n, nn, a, b) ==
    CASE d = 6 -> nn
      [] d = 7 -> (a + nn) % 256
      [] d = 8 /\ n = 0 -> b
      [] d = 8 /\ n = 1 -> BitOr(a, b)
      [] d = 8 /\ n = 2 -> BitAnd(a, b)
      [] d = 8 /\ n = 3 -> BitXor(a, b)

\* C20: the tick of 6XNN, 7XNN, 8XY0, 8XY1, 8XY2 or 8XY3 succeeds and leaves
\* Vx = nn, (Vx + nn) mod 256, Vy, Vx OR Vy, Vx AND Vy, Vx XOR Vy; every
\* other register, VF included when x is not 0xF, I, the memory, the stack
\* and its pointer, the keypad and the framebuffer are as they were, and pc
\* is greater by 2.
C20_RegisterOnly ==
    [][ (TickStep /\ (OpD \in { 6, 7 } \/ (OpD = 8 /\ OpN \in 0..3))) =>
          /\ last'.ret = "Ok"
          /\ v' = [ v EXCEPT ![OpX] = Loaded(OpD, OpN, OpNN, v[OpX], v[OpY]) ]
          /\ UNCHANGED << i, mem, stack, sp, keypad, fb >>
          /\ pc' = pc + 2 ]_vars

\* a 7XNN with x not 0xF has wrapped and VF is still the 5 it was
C20_Witness ==
    /\ last.op = "tick"
    /\ LastD = 7
    /\ LastX # 15
    /\ before.v[LastX] + LastNN >= 256
    /\ v[LastX] = before.v[LastX] + LastNN - 256
    /\ before.v[15] = 5
    /\ v[15] = 5

\* ----------------------------------------------------------- draw programs

\* the word DXYN
OpDraw(x, y, n) == (13 * 4096) + (x * 256) + (y * 16) + n

\* the two sprite rows of a draw program
Sprites == { << 255, 129 >>, << 0, 165 >> }

\* Vrx = xa; V1 = ya; I = the sprite; a first draw, or none; Vrx = xb; the
\* same draw twice; jump to self; the sprite at 0x210
RomDraw(rx, xa, xb, ya, n, first, sprite) ==
    Bytes(<< Op6(rx, xa), Op6(1, ya), \hA210,
             IF first THEN OpDraw(rx, 1, n) ELSE 0,
             Op6(rx, xb), OpDraw(rx, 1, n), OpDraw(rx, 1, n), \h120E >>) \o sprite

\* the draw programs, and a draw of the last byte of memory
DrawRoms ==
    { RomDraw(rx, xa, xb, ya, n, first, sprite) :
        rx \in { 0, 15 }, xa \in { 0, 62 }, xb \in { 0, 60 }, ya \in { 0, 31 },
        n \in 0..2, first \in BOOLEAN, sprite \in Sprites }
      \cup { Bytes(<< \hAFFF, \hD001, \h1204 >>) }

\* the ticks of a draw program
MaxDrawTicks == 7

LoadDraw == LoadOnce(DrawRoms)

TickDraw == TickUpTo(MaxDrawTicks)

NextDraw == LoadDraw \/ TickDraw

SpecDraw == Init /\ [][NextDraw]_vars

\* --------------------------------------------------------------------- C14

\* the pixels DXYN toggles: for each row r < n and each bit b of mem[I + r]
\* that is set, bit 0 the most significant, column (Vx + b) mod 64 of row
\* (Vy + r) mod 32
Toggled(m, I, vx, vy, n) ==
    { ((vx + b) % 64) + (((vy + r) % 32) * 64) :
        << r, b >> \in { rb \in (0..(n - 1)) \X (0..7) :
                            (at(m, I + rb[1]) \div (2 ^ (7 - rb[2]))) % 2 = 1 } }

\* C14: the tick of DXYN with I + N <= 4096 succeeds; it toggles exactly the
\* pixels at column (Vx + b) mod 64, row (Vy + r) mod 32 for the set bits b
\* of the rows r < N of the sprite at I, and leaves VF = 1 iff one of them
\* was on before, else 0.
C14_DrawWraps ==
    [][ (TickStep /\ OpD = 13 /\ i + OpN <= 4096) =>
          LET px == Toggled(mem, i, v[OpX], v[OpY], OpN)
          IN  /\ last'.ret = "Ok"
              /\ fb' = (fb \ px) \cup (px \ fb)
              /\ v'[15] = IF px \cap fb # {} THEN 1 ELSE 0 ]_vars

\* the rows 0xFF, 0x81 drawn at x = 60, y = 31 on a blank screen: columns
\* 60..63 and 0..3 of row 31, columns 60 and 3 of row 0, and no collision
C14_Witness ==
    /\ last.op = "tick"
    /\ LastD = 13
    /\ LastN = 2
    /\ before.v[LastX] = 60
    /\ before.v[LastY] = 31
    /\ before.fb = {}
    /\ fb = { (31 * 64) + c : c \in { 60, 61, 62, 63, 0, 1, 2, 3 } } \cup { 60, 3 }
    /\ v[15] = 0

\* --------------------------------------------------------------------- C15

\* C15: a DXYN executed right after the same DXYN, with the same Vx, Vy and
\* I, leaves the framebuffer as it was before the first of the two; on a
\* screen that was blank before the first, the second leaves VF = 1 when the
\* sprite has a pixel.
C15_DrawTwice ==
    [][ (/\ TickStep
         /\ OpD = 13
         /\ i + OpN <= 4096
         /\ last.op = "tick"
         /\ last.ret = "Ok"
         /\ last.arg = Op
         /\ before.v[OpX] = v[OpX]
         /\ before.v[OpY] = v[OpY]
         /\ before.i = i) =>
          /\ fb' = before.fb
          /\ (before.fb = {} /\ fb # {}) => v'[15] = 1 ]_vars

\* the second of two draws has put back a screen that was not blank, and
\* has collided
C15_Witness ==
    /\ last.op = "tick"
    /\ LastD = 13
    /\ LastN = 2
    /\ nticks = 7
    /\ fb # {}
    /\ before.fb # fb
    /\ before.fb # {}
    /\ v[15] = 1

\* ---------------------------------------------------------- timer programs

\* what follows the setting of the timers: nothing (0000 from there on), an
\* undefined word, a jump to 0xFFE (the fetch after it fails), a read of the
\* delay timer and a second setting of it
TimerTails == { << >>, << \h0123 >>, << \h1FFE >>, << \hF207, \hF215 >> }

\* V0 = k; V1 = j; delay timer = V0; sound timer = V1; a tail
TimerRoms ==
    { Bytes(<< Op6(0, k), Op6(1, j), \hF015, \hF118 >> \o tail) :
        k \in { 0, 1, 5 }, j \in { 0, 3 }, tail \in TimerTails }

\* the ticks of a timer program
MaxTimerTicks == 11

LoadTimer == LoadOnce(TimerRoms)

TickTimer == TickUpTo(MaxTimerTicks)

NextTimer == LoadTimer \/ TickTimer

SpecTimer == Init /\ [][NextTimer]_vars

\* --------------------------------------------------------------------- C16

\* C16: a tick that returns, Ok or an Exception, and executes neither FX15
\* nor FX18 leaves the delay timer at max(dt - 1, 0) and the sound timer at
\* max(st - 1, 0).
C16_TimersFloor ==
    [][ (/\ TickStep
         /\ last'.ret # "Panic"
         /\ ~ (OpD = 15 /\ OpNN \in { 21, 24 })) =>
          /\ dt' = IF dt >= 1 THEN dt - 1 ELSE 0
          /\ st' = IF st >= 1 THEN st - 1 ELSE 0 ]_vars

\* the delay timer was set to 5 by the third tick and the sound timer to 3 by
\* the fourth: after 11 ticks both are 0
C16_Witness ==
    /\ last.op = "tick"
    /\ nticks = 11
    /\ at(mem, ENTRY_ADDR) = 96
    /\ at(mem, ENTRY_ADDR + 1) = 5
    /\ at(mem, ENTRY_ADDR + 3) = 3
    /\ v[0] = 5
    /\ v[1] = 3
    /\ dt = 0
    /\ st = 0

\* ---------------------------------------------------------------- one word

\* the programs of one word: every family d and every low byte nn, on V0 and
\* on VF
WordRoms ==
    { Bytes(<< (d * 4096) + (x * 256) + nn >>) :
        d \in 0..15, x \in { 0, 15 }, nn \in 0..255 }

\* the ticks of a program of one word
MaxWordTicks == 1

LoadWord == LoadOnce(WordRoms)

TickWord == TickUpTo(MaxWordTicks)

NextWord == LoadWord \/ TickWord

SpecWord == Init /\ [][NextWord]_vars

\* --------------------------------------------------------------------- C17

\* the undefined encodings
Undefined(w) ==
    LET d == w \div 4096
        n == w % 16
        nn == w % 256
    IN  \/ d = 0 /\ nn \notin { 0, 224, 238 }
        \/ d = 8 /\ n \notin (0..7) \cup { 14 }
        \/ d = 14 /\ nn \notin { 158, 161 }
        \/ d = 15 /\ nn \notin { 7, 10, 21, 24, 30, 41, 51, 85, 101 }

\* C17: a tick that fetches a word fails with IllegalOpcode iff the word is
\* an undefined encoding.
C17_IllegalOpcodeExactly ==
    [][ (TickStep /\ Op >= 0) =>
          (last'.ret = "IllegalOpcode" <=> Undefined(Op)) ]_vars

\* 0x5001 was executed and the tick succeeded
C17_Witness ==
    /\ last.op = "tick"
    /\ last.arg = 20481
    /\ last.ret = "Ok"

\* ------------------------------------------------------------ key programs

\* the keys of the key programs, and the values of V0
PadKeys == { 0, 1, 2 }
PadVals == { 0, 1, 2, 3, 16 }

\* V0 = k; then EX9E, EXA1 or FX0A on V0
KeyRoms == { Bytes(<< Op6(0, k), w >>) : k \in PadVals, w \in { \hE09E, \hE0A1, \hF00A } }

\* the ticks of a key program
MaxKeyTicks == 2

LoadKey == LoadOnce(KeyRoms)

SetKeypadKey == SetKeypadFrom(PadKeys)

TickKey == TickUpTo(MaxKeyTicks)

NextKey == LoadKey \/ SetKeypadKey \/ TickKey

SpecKey == Init /\ [][NextKey]_vars

\* key k is pressed and no key of a lower index is
Lowest(k) == keypad[k] /\ \A h \in 0..(k - 1) : ~ keypad[h]

\* --------------------------------------------------------------------- C18

C19_WaitUsesLowest ==
    [][ (TickStep /\ OpD = 15 /\ OpNN = 10) =>
          LET released == [ Self EXCEPT !.keypad = [ k \in 0..15 |-> FALSE ] ]
          IN  (pc' # tick(released, TRUE).chip.pc)
                  <=> (\E k \in 0..15 : Lowest(k) /\ v[OpX] = k) ]_vars

\* ----------------------------------------------------------- call programs

\* 0x200: call 0x204; 0x202: jump to self; 0x204: V0 += 1; skip the next word
\* if V0 = m; call 0x204; return.  The calls nest m deep.
RomRecurse(m) == Bytes(<< \h2204, \h1202, \h7001, (3 * 4096) + m, \h2204, \h00EE >>)

\* 0x200: call 0x206; V0 = 1; jump to self; 0x206: call 0x20C; V0 += 1;
\* return; 0x20C: V1 = 5; return
RomNested == Bytes(<< \h2206, \h6001, \h1204, \h220C, \h7001, \h00EE, \h6105, \h00EE >>)

\* words of the other families, executed between a call and its return
BodyWords ==
    { \h00E0, \h1206, \h3000, \h4000, \h5010, \h6A07, \h7AFF, \h8AB4, \h8AB6,
      \h9010, \hA300, \hB206, \hC10F, \hD125, \hE09E, \hE0A1, \hF107, \hF00A,
      \hF115, \hF118, \hF11E, \hF129, \hF133, \hF255, \hF265, \h0123 }

\* 0x200: call 0x204; jump to self; 0x204: a word; return
RomBody(w) == Bytes(<< \h2204, \h1202, w, \h00EE >>)

CallRoms ==
    { RomRecurse(m) : m \in { 2, STACK_SIZE, STACK_SIZE + 1 } }
        \cup { RomNested, RomCallRet }
        \cup { RomBody(w) : w \in BodyWords }

\* the ticks of a call program
MaxCallTicks == 68

LoadCall == LoadOnce(CallRoms)

TickCall == TickUpTo(MaxCallTicks)

NextCall == LoadCall \/ TickCall \/ Reset

SpecCall == Init /\ [][NextCall]_vars

\* --------------------------------------------------------------------- C21

\* C21: the stack pointer is the number of calls not yet answered by a
\* return; a 2NNN at address A that succeeds leaves sp greater by 1 and
\* pc = NNN; a 00EE that succeeds leaves sp less by 1 and pc = A + 2 for the
\* address A of the last call not yet answered; and no step but a tick of
\* 2NNN or 00EE and reset changes the stack or the stack pointer.
C21_CallReturnLifo ==
    /\ [](Len(calls) = sp)
    /\ [][ (TickStep /\ OpD = 2 /\ last'.ret = "Ok") =>
             /\ sp' = sp + 1
             /\ pc' = Op % 4096 ]_vars
    /\ [][ (TickStep /\ OpD = 0 /\ OpNN = 238 /\ last'.ret = "Ok") =>
             /\ Len(calls) > 0
             /\ sp' = sp - 1
             /\ pc' = calls[Len(calls)] ]_vars
    /\ [][ (~ ResetStep /\ ~ (TickStep /\ (OpD = 2 \/ (OpD = 0 /\ OpNN = 238)))) =>
             UNCHANGED << stack, sp >> ]_vars

\* 16 calls are nested, V0 counting them, and the innermost has returned to
\* the word after it, 0x20A
C21_Witness ==
    /\ last.op = "tick"
    /\ last.arg = 238
    /\ last.ret = "Ok"
    /\ v[0] = STACK_SIZE
    /\ sp = STACK_SIZE - 1
    /\ Len(calls) = STACK_SIZE - 1
    /\ calls[1] = ENTRY_ADDR + 2
    /\ pc = ENTRY_ADDR + 10

=============================================================================
